---------------------------- MODULE Spec2Model ----------------------------
(***************************************************************************)
(* HabitTracker: the SQLite store of users, habits and completions         *)
(* (src/src/database/db_handler.py), the streak analytics computed over it *)
(* (src/src/analytics/analytics.py) and the command-line shell that drives *)
(* both (src/src/main.py).                                                 *)
(*                                                                         *)
(* Time.  A datetime is a whole number of ticks, TicksPerDay ticks to the  *)
(* day.  A stored completed_date is TEXT: either the ISO-8601 text of a    *)
(* datetime, or text that datetime.fromisoformat rejects.                  *)
(***************************************************************************)
EXTENDS Integers, Sequences, FiniteSets, TLC

\* ---------------------------------------------------------------- bounds
\* The resolution of time: ticks to the day (timedelta.days truncates to it).
TicksPerDay == 2
\* Streak engine: the last tick a completion may carry, completions stored,
\* and the largest periodicity of a habit.
MaxTick == 7
MaxCompletions == 4
MaxPeriodicity == 2
\* Order of retrieval: completions stored.
OrdMaxCompletions == 3
\* Aggregator: users, habits stored, completions stored.
MaxUsers == 2
MaxHabits == 2
AggMaxCompletions == 2
\* Filter by periodicity: habits stored.
FltMaxHabits == 3
\* Habits due today: habits stored, completions stored.
DueMaxHabits == 2
DueMaxCompletions == 2
\* Queries on empty states: habits stored, completions stored.
EmpMaxHabits == 2
EmpMaxCompletions == 1
\* Completions of a habit: habits stored, completions ever stored.
CmpMaxHabits == 2
CmpMaxCompletions == 3
\* Accounts: users registered.
UsrMaxUsers == 2
\* Habits of an account: users registered, habits the user adds.
AppMaxUsers == 1
AppMaxAdded == 1

VARIABLES
    users,            \* rows of table users, in rowid order
    habits,           \* rows of table habits, in rowid order
    completions,      \* rows of table completions, in rowid order
    sqlite_sequence,  \* AUTOINCREMENT: the last id handed out, per table
    current_user_id,  \* main.py: the id of the logged-in user
    current_username, \* main.py: the name the user logged in with
    self,             \* models/habit.py: the Habit object, None before it is made
    ret               \* what the last operation returned

vars == <<users, habits, completions, sqlite_sequence,
          current_user_id, current_username, self, ret>>
db == <<users, habits, completions, sqlite_sequence>>
session == <<current_user_id, current_username>>

\* ------------------------------------------------------------ text, time
\* datetime.isoformat(): the text of a datetime.
isoformat(t) == [kind |-> "iso", ticks |-> t]
\* Text that is not an ISO-8601 date-time.
Garbage == [kind |-> "garbage", ticks |-> 0]
\* Python's None, where a text is expected.
None == [kind |-> "none", ticks |-> 0]
\* Python's None, where the id of a user is expected: ids start at 1.
NoUser == 0
\* Python's None, where the name of a user is expected: click.prompt takes
\* no empty input.
NoName == ""
\* datetime.fromisoformat(s) raises ValueError unless s is ISO text
\* (TypeError when s is None).
fromisoformat_raises(s) == s.kind # "iso"
fromisoformat(s) == s.ticks
\* Mutant: the difference of the calendar dates.
days_between_dates(curr, prev) ==
    (curr \div TicksPerDay) - (prev \div TicksPerDay)

\* timedelta.days of (curr - prev): the floor of the difference in days,
\* also when the difference is negative.
days(curr, prev) == (curr - prev) \div TicksPerDay

\* Mutant: the sum.
Max_adding(a, b) == a + b

Max(a, b) == IF a >= b THEN a ELSE b

\* What a Python call does: returns a value or raises.
Return(v) == [exc |-> "none", value |-> v]
Raise(e) == [exc |-> e, value |-> 0]

\* ret holds what the last operation returned: a write returns None.
Call(op, a, b, result) == [op |-> op, a |-> a, b |-> b, result |-> result]
NoCall == Call("none", 0, 0, Return(0))

\* What a write did: the operation, its arguments and the tables it found.
\* It returns None.
Tables == [users |-> users, habits |-> habits, completions |-> completions]
Did(op, a, b) ==
    [op |-> op, a |-> a, b |-> b, result |-> Return(None), before |-> Tables]

\* ------------------------------------------------------- DatabaseHandler
\* SELECT * FROM habits WHERE user_id = ?
get_all_habits(user_id) ==
    SelectSeq(habits, LAMBDA h : h.user_id = user_id)

\* SELECT * FROM completions WHERE habit_id = ?
get_completions(habit_id) ==
    SelectSeq(completions, LAMBDA c : c.habit_id = habit_id)

\* INSERT INTO habits (user_id, name, description, periodicity, creation_date)
\* creation_date = creation_date or datetime.now().isoformat()
add_habit(user_id, name, description, periodicity, creation_date, now) ==
    /\ habits' = Append(habits,
           [id |-> sqlite_sequence.habits + 1, user_id |-> user_id,
            name |-> name, description |-> description,
            periodicity |-> periodicity,
            creation_date |-> IF creation_date = None THEN isoformat(now)
                              ELSE creation_date])
    /\ sqlite_sequence' = [sqlite_sequence EXCEPT !.habits = @ + 1]
    /\ ret' = NoCall
    /\ UNCHANGED <<users, completions, session, self>>

\* INSERT INTO completions (habit_id, completed_date).  A completed_date of
\* None is replaced by the text of the current time, now.  Any other text is
\* stored as it is: the column is TEXT NOT NULL and nothing parses it.
add_completion(habit_id, completed_date, now) ==
    /\ completions' = Append(completions,
           [id |-> sqlite_sequence.completions + 1, habit_id |-> habit_id,
            completed_date |-> IF completed_date = None
                               THEN isoformat(now) ELSE completed_date])
    /\ sqlite_sequence' = [sqlite_sequence EXCEPT !.completions = @ + 1]
    /\ ret' = NoCall
    /\ UNCHANGED <<users, habits, session, self>>

\* SQLite's DATE(text): the calendar day of the text, NULL for text that is
\* no date.  A comparison with NULL is not true.
DATE_is_null(s) == s.kind # "iso"
DATE(s) == s.ticks \div TicksPerDay

\* The order of TEXT values (ORDER BY completed_date).  The texts that
\* isoformat() writes have fields of fixed width, so they order as their
\* datetimes do; Garbage stands for text that starts with a letter, which
\* orders after every digit.
text_less(s, t) ==
    \/ s.kind = "iso" /\ t.kind = "iso" /\ s.ticks < t.ticks
    \/ s.kind = "iso" /\ t.kind = "garbage"

\* UPDATE completions SET completed_date = ? WHERE id = ?
update_completion_date(completion_id, new_date) ==
    /\ completions' = [i \in 1..Len(completions) |->
           IF completions[i].id = completion_id
           THEN [completions[i] EXCEPT !.completed_date = new_date]
           ELSE completions[i]]
    /\ ret' = Did("update_completion_date", completion_id, new_date)
    /\ UNCHANGED <<users, habits, sqlite_sequence, session, self>>

\* Mutant: a completion is deleted when its text equals the text given.
delete_completion_exact(habit_id, completed_date) ==
    /\ completions' = SelectSeq(completions, LAMBDA c :
           ~(c.habit_id = habit_id /\ c.completed_date = completed_date))
    /\ ret' = Did("delete_completion", habit_id, completed_date)
    /\ UNCHANGED <<users, habits, sqlite_sequence, session, self>>

\* DELETE FROM completions
\* WHERE habit_id = ? AND DATE(completed_date) = DATE(?)
delete_completion(habit_id, completed_date) ==
    /\ completions' = SelectSeq(completions, LAMBDA c :
           ~(/\ c.habit_id = habit_id
             /\ ~DATE_is_null(c.completed_date)
             /\ ~DATE_is_null(completed_date)
             /\ DATE(c.completed_date) = DATE(completed_date)))
    /\ ret' = Did("delete_completion", habit_id, completed_date)
    /\ UNCHANGED <<users, habits, sqlite_sequence, session, self>>

\* UPDATE habits SET ... WHERE name = ?: the rows of every user.
update_habit_of_any_user(user_id, old_name, new_name, new_description, new_periodicity) ==
    /\ habits' = [i \in 1..Len(habits) |->
           IF habits[i].name = old_name
           THEN [habits[i] EXCEPT !.name = new_name,
                                  !.description = new_description,
                                  !.periodicity = new_periodicity]
           ELSE habits[i]]
    /\ ret' = Did("update_habit", <<user_id, old_name>>,
                  <<new_name, new_description, new_periodicity>>)
    /\ UNCHANGED <<users, completions, sqlite_sequence, session, self>>

\* UPDATE habits SET name = ?, description = ?, periodicity = ?
\* WHERE user_id = ? AND name = ?
update_habit(user_id, old_name, new_name, new_description, new_periodicity) ==
    /\ habits' = [i \in 1..Len(habits) |->
           IF habits[i].user_id = user_id /\ habits[i].name = old_name
           THEN [habits[i] EXCEPT !.name = new_name,
                                  !.description = new_description,
                                  !.periodicity = new_periodicity]
           ELSE habits[i]]
    /\ ret' = Did("update_habit", <<user_id, old_name>>,
                  <<new_name, new_description, new_periodicity>>)
    /\ UNCHANGED <<users, completions, sqlite_sequence, session, self>>

\* DELETE FROM habits WHERE user_id = ? AND name = ?
\* The connection never sets PRAGMA foreign_keys, so SQLite does not enforce
\* the FOREIGN KEY clauses of create_tables and ON DELETE CASCADE deletes
\* nothing.
delete_habit(user_id, habit_name) ==
    /\ habits' = SelectSeq(habits, LAMBDA h :
           ~(h.user_id = user_id /\ h.name = habit_name))
    /\ ret' = Did("delete_habit", user_id, habit_name)
    /\ UNCHANGED <<users, completions, sqlite_sequence, session, self>>

\* UPDATE users SET username = ?, email = ? WHERE id = ?
update_user(user_id, new_username, new_email) ==
    /\ users' = [i \in 1..Len(users) |->
           IF users[i].id = user_id
           THEN [users[i] EXCEPT !.username = new_username, !.email = new_email]
           ELSE users[i]]
    /\ ret' = Did("update_user", user_id, <<new_username, new_email>>)
    /\ UNCHANGED <<habits, completions, sqlite_sequence, session, self>>

\* SELECT * FROM users
get_all_users == users

\* SELECT id FROM users WHERE username = ?, fetchone(): the id of the first
\* row of the table with that username, or None.
get_user_id(table, username) ==
    LET found == SelectSeq(table, LAMBDA u : u.username = username) IN
    IF found = <<>> THEN NoUser ELSE Head(found).id

\* SELECT * FROM completions WHERE habit_id = ?
\* ORDER BY completed_date DESC LIMIT 1, fetchone(): None, or a row of the
\* habit whose text no other row of it exceeds.  SQL leaves open which one
\* of several such rows comes first.
get_last_completion(habit_id) ==
    LET rows == get_completions(habit_id) IN
    IF rows = <<>> THEN {None}
    ELSE {rows[i] : i \in {k \in 1..Len(rows) :
              \A j \in 1..Len(rows) :
                  ~text_less(rows[k].completed_date, rows[j].completed_date)}}

\* ------------------------------------------------------------- analytics
\* Mutant: the dates are scanned in the order the storage returned them.
sorted_not_at_all(s) == s

\* sorted(): ascending, stable.
RECURSIVE insort(_, _)
insort(s, x) ==
    IF s = <<>> THEN <<x>>
    ELSE IF x < s[Len(s)] THEN Append(insort(SubSeq(s, 1, Len(s) - 1), x), s[Len(s)])
    ELSE Append(s, x)

RECURSIVE sorted(_)
sorted(s) ==
    IF s = <<>> THEN <<>>
    ELSE insort(sorted(SubSeq(s, 1, Len(s) - 1)), s[Len(s)])

\* Mutant: no lower bound on the difference, so a same-day pair extends.
continues_without_lower_bound(periodicity, diff) == diff <= periodicity

\* The condition of streak_reducer under which a pair extends the streak.
continues(periodicity, diff) ==
    \/ periodicity = 1 /\ diff = 1
    \/ periodicity > 1 /\ 1 <= diff /\ diff <= periodicity

\* Mutant: a break forgets the maximum reached so far.
streak_reducer_forgets_max(acc, curr_date, periodicity) ==
    LET diff == days(curr_date, acc.prev_date) IN
    IF continues(periodicity, diff)
    THEN [prev_date |-> curr_date, streak |-> acc.streak + 1,
          max_streak |-> Max(acc.max_streak, acc.streak + 1)]
    ELSE [prev_date |-> curr_date, streak |-> 1, max_streak |-> 1]

streak_reducer(acc, curr_date, periodicity) ==
    LET diff == days(curr_date, acc.prev_date) IN
    IF continues(periodicity, diff)
    THEN [prev_date |-> curr_date, streak |-> acc.streak + 1,
          max_streak |-> Max(acc.max_streak, acc.streak + 1)]
    ELSE [prev_date |-> curr_date, streak |-> 1,
          max_streak |-> Max(acc.max_streak, acc.streak)]

\* functools.reduce(streak_reducer, dates, acc)
RECURSIVE reduce(_, _, _)
reduce(dates, acc, periodicity) ==
    IF dates = <<>> THEN acc
    ELSE reduce(Tail(dates), streak_reducer(acc, Head(dates), periodicity),
                periodicity)

\* Mutant: no early return for a habit without completions.
longest_streak_of_unguarded(rows, periodicity) ==
    LET kept == SelectSeq(rows, LAMBDA c : c.completed_date # None) IN
    IF \E i \in 1..Len(kept) : fromisoformat_raises(kept[i].completed_date)
    THEN Return(0)
    ELSE
    LET dates == sorted([i \in 1..Len(kept) |-> fromisoformat(kept[i].completed_date)]) IN
    IF Len(dates) = 1 THEN Return(1)
    ELSE IF dates = <<>> THEN Raise("IndexError")
    ELSE Return(reduce(Tail(dates),
                       [prev_date |-> dates[1], streak |-> 1, max_streak |-> 1],
                       periodicity).max_streak)

\* Mutant: a streak is counted from the second completion on.
longest_streak_of_pairs_only(rows, periodicity) ==
    IF Len(rows) < 2 THEN Return(0)
    ELSE
    LET kept == SelectSeq(rows, LAMBDA c : c.completed_date # None) IN
    IF \E i \in 1..Len(kept) : fromisoformat_raises(kept[i].completed_date)
    THEN Return(0)
    ELSE
    LET dates == sorted([i \in 1..Len(kept) |-> fromisoformat(kept[i].completed_date)]) IN
    Return(reduce(Tail(dates),
                  [prev_date |-> dates[1], streak |-> 1, max_streak |-> 1],
                  periodicity).max_streak)

\* The body of get_longest_streak_for_habit after its SELECT: the streak of
\* the rows the storage returned, in the order it returned them.
longest_streak_of(rows, periodicity) ==
    IF rows = <<>> THEN Return(0)
    ELSE
    LET kept == SelectSeq(rows, LAMBDA c : c.completed_date # None) IN
    IF \E i \in 1..Len(kept) : fromisoformat_raises(kept[i].completed_date)
    THEN Return(0)      \* except Exception: print, return 0
    ELSE
    LET dates == sorted([i \in 1..Len(kept) |-> fromisoformat(kept[i].completed_date)]) IN
    IF Len(dates) = 1 THEN Return(1)
    ELSE IF dates = <<>> THEN Raise("IndexError")     \* dates[0]
    ELSE Return(reduce(Tail(dates),
                       [prev_date |-> dates[1], streak |-> 1, max_streak |-> 1],
                       periodicity).max_streak)

get_longest_streak_for_habit(habit_id, periodicity) ==
    longest_streak_of(get_completions(habit_id), periodicity)

\* Mutant: among equal streaks the last pair wins.
RECURSIVE max_by_streak_keeping_last(_, _)
max_by_streak_keeping_last(pairs, best) ==
    IF pairs = <<>> THEN best
    ELSE max_by_streak_keeping_last(Tail(pairs),
             IF Head(pairs)[2] >= best[2] THEN Head(pairs) ELSE best)

\* max(iterable, key=lambda x: x[1]) over (habit, streak) pairs: the first
\* pair whose streak no later pair exceeds.
RECURSIVE max_by_streak(_, _)
max_by_streak(pairs, best) ==
    IF pairs = <<>> THEN best
    ELSE max_by_streak(Tail(pairs),
                       IF Head(pairs)[2] > best[2] THEN Head(pairs) ELSE best)

\* The first exception among results, if any.
first_raise(results) ==
    LET bad == {i \in 1..Len(results) : results[i].exc # "none"} IN
    results[CHOOSE i \in bad : \A j \in bad : i <= j]

\* Mutant: max() of the streaks with no guard and no default.
get_longest_streak_unguarded(user_id) ==
    LET hs == get_all_habits(user_id) IN
    IF hs = <<>> THEN Raise("ValueError")
    ELSE
    LET streaks == [i \in 1..Len(hs) |->
                       <<hs[i], get_longest_streak_for_habit(hs[i].id,
                                                             hs[i].periodicity).value>>]
    IN  Return(max_by_streak(Tail(streaks), Head(streaks)))

get_longest_streak(user_id) ==
    LET hs == get_all_habits(user_id) IN
    IF hs = <<>> THEN Return(<<None, 0>>)
    ELSE
    LET rs == [i \in 1..Len(hs) |->
                  get_longest_streak_for_habit(hs[i].id, hs[i].periodicity)]
        streaks == [i \in 1..Len(hs) |-> <<hs[i], rs[i].value>>]
    IN  IF \E i \in 1..Len(rs) : rs[i].exc # "none" THEN first_raise(rs)
        ELSE Return(max_by_streak(Tail(streaks), Head(streaks)))

\* The for loop of calculate_streak in get_all_streaks, from index i on.
RECURSIVE streak_loop(_, _, _, _, _)
streak_loop(dates, i, max_streak, current_streak, periodicity) ==
    IF i > Len(dates) THEN Max(max_streak, current_streak)
    ELSE LET diff == days(dates[i], dates[i - 1]) IN
         IF 1 <= diff /\ diff <= periodicity
         THEN streak_loop(dates, i + 1, max_streak, current_streak + 1, periodicity)
         ELSE streak_loop(dates, i + 1, Max(max_streak, current_streak), 1,
                          periodicity)

\* calculate_streak(habit), the closure of get_all_streaks.
calculate_streak(habit) ==
    LET rows == get_completions(habit.id) IN
    IF rows = <<>> THEN Return(0)
    ELSE
    LET bad == {i \in 1..Len(rows) : fromisoformat_raises(rows[i].completed_date)} IN
    IF bad # {}
    THEN LET first == CHOOSE i \in bad : \A j \in bad : i <= j IN
         IF rows[first].completed_date = None THEN Raise("TypeError")
         ELSE Raise("ValueError")
    ELSE LET dates == sorted([i \in 1..Len(rows) |->
                                 fromisoformat(rows[i].completed_date)])
         IN  Return(streak_loop(dates, 2, 1, 1, habit.periodicity))

\* Mutant: a user without habits is an error.
get_all_streaks_faulting_on_empty(user_id) ==
    LET hs == get_all_habits(user_id) IN
    IF hs = <<>> THEN Raise("ValueError")
    ELSE
    LET rs == [i \in 1..Len(hs) |-> calculate_streak(hs[i])] IN
    IF \E i \in 1..Len(rs) : rs[i].exc # "none" THEN first_raise(rs)
    ELSE Return([i \in 1..Len(hs) |->
                    [name |-> hs[i].name, streak |-> rs[i].value]])

get_all_streaks(user_id) ==
    LET hs == get_all_habits(user_id) IN
    IF hs = <<>> THEN Return(<<>>)
    ELSE
    LET rs == [i \in 1..Len(hs) |-> calculate_streak(hs[i])] IN
    IF \E i \in 1..Len(rs) : rs[i].exc # "none" THEN first_raise(rs)
    ELSE Return([i \in 1..Len(hs) |->
                    [name |-> hs[i].name, streak |-> rs[i].value]])

\* Mutant: the habits of every user are filtered.
get_habits_by_periodicity_of_anyone(user_id, periodicity) ==
    Return(SelectSeq(habits, LAMBDA habit : habit.periodicity = periodicity))

\* list(filter(lambda habit: habit['periodicity'] == periodicity, habits))
get_habits_by_periodicity(user_id, periodicity) ==
    Return(SelectSeq(get_all_habits(user_id),
                     LAMBDA habit : habit.periodicity = periodicity))

\* datetime.date(): the calendar day of a datetime.
date(t) == t \div TicksPerDay

\* is_due_today(habit), the closure of get_habits_to_complete_today, at the
\* time now.  Only the text of the last completion is read, and every row
\* get_last_completion may return carries the same text.
is_due_today(habit, now) ==
    LET today == date(now)
        last_completion == CHOOSE r \in get_last_completion(habit.id) : TRUE
    IN  IF last_completion = None THEN Return(TRUE)
        ELSE IF fromisoformat_raises(last_completion.completed_date)
        THEN Raise("ValueError")
        ELSE LET last_date == date(fromisoformat(last_completion.completed_date))
             IN  Return(today - last_date >= habit.periodicity)

\* list(filter(is_due_today, habits)): an exception of is_due_today leaves
\* the call.
get_habits_to_complete_today(user_id, now) ==
    LET hs == get_all_habits(user_id)
        rs == [i \in 1..Len(hs) |-> is_due_today(hs[i], now)]
    IN  IF \E i \in 1..Len(rs) : rs[i].exc # "none" THEN first_raise(rs)
        ELSE Return(SelectSeq(hs, LAMBDA habit : is_due_today(habit, now).value))

\* ------------------------------------------------------ models/habit.py
\* Habit.__init__: the attributes, and no completions.
Habit_init(name, description, periodicity, creation_date) ==
    /\ self = None
    /\ self' = [name |-> name, description |-> description,
                periodicity |-> periodicity, creation_date |-> creation_date,
                completions |-> <<>>]
    /\ ret' = NoCall
    /\ UNCHANGED <<db, session>>

\* Habit.add_completion: self.completions.append(datetime.now())
Habit_add_completion(now) ==
    /\ self # None
    /\ self' = [self EXCEPT !.completions = Append(@, now)]
    /\ ret' = NoCall
    /\ UNCHANGED <<db, session>>

\* Mutant: the rule of the analytics module, a difference of at least a day.
Habit_streak_loop_with_lower_bound(completions_, i, streak, periodicity) ==
    reduce(SubSeq(completions_, i, Len(completions_)),
           [prev_date |-> completions_[i - 1], streak |-> streak,
            max_streak |-> streak], periodicity).streak

\* The for loop of Habit.calculate_streak from index i on (i counts from 1
\* here, from 0 in Python).
RECURSIVE Habit_streak_loop(_, _, _, _)
Habit_streak_loop(completions_, i, streak, periodicity) ==
    IF i > Len(completions_) THEN streak
    ELSE LET diff == days(completions_[i], completions_[i - 1]) IN
         Habit_streak_loop(completions_, i + 1,
                           IF diff <= periodicity THEN streak + 1 ELSE 1,
                           periodicity)

\* Habit.calculate_streak: the list is sorted in place, the streak the loop
\* ends with is returned.
Habit_calculate_streak ==
    /\ self # None
    /\ IF self.completions = <<>>
       THEN /\ self' = self
            /\ ret' = Call("Habit.calculate_streak", self, None, Return(0))
       ELSE LET s == sorted(self.completions) IN
            /\ self' = [self EXCEPT !.completions = s]
            /\ ret' = Call("Habit.calculate_streak", self, None,
                           Return(Habit_streak_loop(s, 2, 1, self.periodicity)))
    /\ UNCHANGED <<db, session>>

\* ------------------------------------------------------------------ shell
\* The tables as a value, for a handler that makes several calls.
Stored == [users |-> users, habits |-> habits, completions |-> completions,
           sqlite_sequence |-> sqlite_sequence]

\* DatabaseHandler.add_user and add_habit on tables t.
user_added(t, username, email) ==
    [t EXCEPT !.users = Append(@, [id |-> t.sqlite_sequence.users + 1,
                                   username |-> username, email |-> email]),
              !.sqlite_sequence.users = @ + 1]

habit_added(t, user_id, name, description, periodicity, creation_date) ==
    [t EXCEPT !.habits = Append(@, [id |-> t.sqlite_sequence.habits + 1,
                                    user_id |-> user_id, name |-> name,
                                    description |-> description,
                                    periodicity |-> periodicity,
                                    creation_date |-> creation_date]),
              !.sqlite_sequence.habits = @ + 1]

\* timedelta(weeks=4)
Weeks == 4
DaysPerWeek == 7

predefined_habits ==
    << [name |-> "Exercise", description |-> "30 minutes of physical exercise",
        periodicity |-> 1],
       [name |-> "Reading", description |-> "Read 20 pages of a book",
        periodicity |-> 2],
       [name |-> "Meditation", description |-> "10 minutes of meditation",
        periodicity |-> 3],
       [name |-> "Weekly Cleaning", description |-> "Clean the house thoroughly",
        periodicity |-> 7],
       [name |-> "Grocery Shopping", description |-> "Buy weekly groceries",
        periodicity |-> 7] >>

\* Mutant: the loop stops before it reaches end_date.
completion_dates_stopping_early(current_date, end_date, periodicity) ==
    LET steps == {k \in 0..(Weeks * DaysPerWeek) :
                     current_date - k * periodicity * TicksPerDay > end_date}
    IN  [k \in 1..Cardinality(steps) |->
            current_date - (k - 1) * periodicity * TicksPerDay]

\* The values of completion_date in the loop
\*   while completion_date >= end_date: ...
\*       completion_date -= timedelta(days=periodicity)
\* that starts at current_date: the steps at which the condition holds, for
\* a periodicity of a day or more.
completion_dates(current_date, end_date, periodicity) ==
    LET steps == {k \in 0..(Weeks * DaysPerWeek) :
                     current_date - k * periodicity * TicksPerDay >= end_date}
    IN  [k \in 1..Cardinality(steps) |->
            current_date - (k - 1) * periodicity * TicksPerDay]

\* db.add_completion(habit_id, completion_date.isoformat()) for each of the
\* dates, in their order.
completions_added(t, habit_id, dates) ==
    [t EXCEPT !.completions = @ \o [k \in 1..Len(dates) |->
                                       [id |-> t.sqlite_sequence.completions + k,
                                        habit_id |-> habit_id,
                                        completed_date |-> isoformat(dates[k])]],
              !.sqlite_sequence.completions = @ + Len(dates)]

\* The for loop of create_predefined_habits from the k-th habit on.
RECURSIVE create_predefined_habits_from(_, _, _, _)
create_predefined_habits_from(k, t, user_id, current_date) ==
    IF k > Len(predefined_habits) THEN t
    ELSE
    LET habit == predefined_habits[k]
        creation_date == isoformat(current_date)
        t1 == habit_added(t, user_id, habit.name, habit.description,
                          habit.periodicity, creation_date)
        \* next((h['id'] for h in habits if h['name'] == habit['name']), None)
        named == SelectSeq(t1.habits, LAMBDA h :
                     h.user_id = user_id /\ h.name = habit.name)
        habit_id == Head(named).id
        end_date == current_date - Weeks * DaysPerWeek * TicksPerDay
    IN  create_predefined_habits_from(k + 1,
            completions_added(t1, habit_id,
                completion_dates(current_date, end_date, habit.periodicity)),
            user_id, current_date)

create_predefined_habits(t, user_id, current_date) ==
    create_predefined_habits_from(1, t, user_id, current_date)

\* login_or_register, choice "n": a username or an email that exists is
\* asked for again; otherwise the user is added and logged in, and gets the
\* predefined habits.
register(username, email, current_date) ==
    /\ current_user_id = NoUser
    /\ ~\E i \in 1..Len(get_all_users) : get_all_users[i].username = username
    /\ ~\E i \in 1..Len(get_all_users) : get_all_users[i].email = email
    /\ LET t1 == user_added(Stored, username, email)
           user_id == get_user_id(t1.users, username)
           t2 == create_predefined_habits(t1, user_id, current_date)
       IN  /\ users' = t2.users
           /\ habits' = t2.habits
           /\ completions' = t2.completions
           /\ sqlite_sequence' = t2.sqlite_sequence
           /\ current_user_id' = user_id
           /\ current_username' = username
           /\ ret' = Did("register", user_id, current_date)
           /\ UNCHANGED self

\* login_or_register, choice "y": the first user with the username is logged
\* in; an unknown username is asked for again.
login(username) ==
    /\ current_user_id = NoUser
    /\ \E i \in 1..Len(get_all_users) : get_all_users[i].username = username
    /\ LET user == Head(SelectSeq(get_all_users, LAMBDA u : u.username = username))
       IN  /\ current_user_id' = user.id
           /\ current_username' = user.username
    /\ ret' = NoCall
    /\ UNCHANGED <<db, self>>

logout ==
    /\ current_user_id # NoUser
    /\ current_user_id' = NoUser
    /\ current_username' = NoName
    /\ ret' = NoCall
    /\ UNCHANGED <<db, self>>

\* main.add_habit: a name the user has a habit of is asked for again; the
\* periodicity is any integer (click.prompt, type=int).
cli_add_habit(name, description, periodicity, now) ==
    /\ current_user_id # NoUser
    /\ ~\E i \in 1..Len(get_all_habits(current_user_id)) :
            get_all_habits(current_user_id)[i].name = name
    /\ add_habit(current_user_id, name, description, periodicity,
                 isoformat(now), now)

\* What is typed at "Enter the completion date (YYYY-MM-DD) or type 'today'";
\* anything else is asked for again.
TodayInput == [kind |-> "today", day |-> 0]
DateInput(day) == [kind |-> "date", day |-> day]
\* datetime.strptime(completion_input, "%Y-%m-%d"): midnight of the day.
strptime(completion_input) == completion_input.day * TicksPerDay

\* main.complete_habit: the first habit of the user with the name gets a
\* completion, now or at midnight of the date typed; no habit of the name,
\* no completion.
complete_habit(habit_name, completion_input, now) ==
    /\ current_user_id # NoUser
    /\ LET named == SelectSeq(get_all_habits(current_user_id),
                              LAMBDA h : h.name = habit_name)
           completion_date == IF completion_input = TodayInput THEN now
                              ELSE strptime(completion_input)
           t == IF named = <<>> THEN Stored
                ELSE completions_added(Stored, Head(named).id,
                                       <<completion_date>>)
       IN  /\ completions' = t.completions
           /\ sqlite_sequence' = t.sqlite_sequence
    /\ ret' = Did("complete_habit", habit_name, <<completion_input, now>>)
    /\ UNCHANGED <<users, habits, session, self>>

\* SELECT * FROM habits WHERE user_id = ? AND name = ?; fetchone(): the
\* first such row, or None.
get_habit_by_name(user_id, habit_name) ==
    LET named == SelectSeq(habits, LAMBDA h :
                     h.user_id = user_id /\ h.name = habit_name)
    IN  IF named = <<>> THEN None ELSE Head(named)

\* main.edit_completion: the completion must be one of the habit of that
\* name of the user; the new date is midnight of the date typed.
edit_completion(habit_name, comp_id, new_date_str) ==
    /\ current_user_id # NoUser
    /\ LET habit == get_habit_by_name(current_user_id, habit_name) IN
       IF /\ habit # None
          /\ \E i \in 1..Len(get_completions(habit.id)) :
                 get_completions(habit.id)[i].id = comp_id
       THEN update_completion_date(comp_id, isoformat(strptime(new_date_str)))
       ELSE /\ ret' = Did("edit_completion", habit_name, comp_id)
            /\ UNCHANGED <<db, session, self>>

\* main.delete_completion: the completions of the first habit of that name
\* of the user on the date typed. Without such a habit, or without
\* completions of it, the command returns and does not call menu(): the
\* click command ends the process, the next run starts logged out, or the
\* loop of menu() goes on.
cli_delete_completion(habit_name, input_date) ==
    /\ current_user_id # NoUser
    /\ LET named == SelectSeq(get_all_habits(current_user_id),
                              LAMBDA h : h.name = habit_name) IN
       IF named # <<>> /\ get_completions(Head(named).id) # <<>>
       THEN delete_completion(Head(named).id, isoformat(strptime(input_date)))
       ELSE /\ ret' = Did("cli_delete_completion", habit_name, input_date)
            /\ \/ UNCHANGED session
               \/ current_user_id' = NoUser /\ current_username' = NoName
            /\ UNCHANGED <<db, self>>

\* main.edit_habit
edit_habit(habit_name, new_name, new_description, new_periodicity) ==
    /\ current_user_id # NoUser
    /\ update_habit(current_user_id, habit_name, new_name, new_description,
                    new_periodicity)

\* main.delete_habit
cli_delete_habit(habit_name) ==
    /\ current_user_id # NoUser
    /\ delete_habit(current_user_id, habit_name)

\* main.edit_user
edit_user(new_username, new_email) ==
    /\ current_user_id # NoUser
    /\ update_user(current_user_id, new_username, new_email)

\* ---------------------------------------------------------------- calls
\* Rows in ascending order of their dates (for the mutant below).
RECURSIVE sort_rows(_)
sort_rows(rows) ==
    IF rows = <<>> THEN <<>>
    ELSE LET last == rows[Len(rows)]
             front == sort_rows(SubSeq(rows, 1, Len(rows) - 1))
         IN  SelectSeq(front, LAMBDA c : c.completed_date.ticks <= last.completed_date.ticks)
                 \o <<last>>
                 \o SelectSeq(front, LAMBDA c : c.completed_date.ticks > last.completed_date.ticks)

\* Mutant: the completions are sorted in place, in the store.
CallGetLongestStreakForHabit_sorting_in_place(habit_id, periodicity) ==
    /\ ret' = Call("get_longest_streak_for_habit", habit_id, periodicity,
                   get_longest_streak_for_habit(habit_id, periodicity))
    /\ completions' = sort_rows(completions)
    /\ UNCHANGED <<users, habits, sqlite_sequence, session, self>>

CallGetLongestStreakForHabit(habit_id, periodicity) ==
    /\ ret' = Call("get_longest_streak_for_habit", habit_id, periodicity,
                   get_longest_streak_for_habit(habit_id, periodicity))
    /\ UNCHANGED <<db, session, self>>

CallGetLongestStreak(user_id) ==
    /\ ret' = Call("get_longest_streak", user_id, 0, get_longest_streak(user_id))
    /\ UNCHANGED <<db, session, self>>

CallGetAllStreaks(user_id) ==
    /\ ret' = Call("get_all_streaks", user_id, 0, get_all_streaks(user_id))
    /\ UNCHANGED <<db, session, self>>

CallGetAllHabits(user_id) ==
    /\ ret' = Call("get_all_habits", user_id, 0, Return(get_all_habits(user_id)))
    /\ UNCHANGED <<db, session, self>>

CallGetHabitsByPeriodicity(user_id, periodicity) ==
    /\ ret' = Call("get_habits_by_periodicity", user_id, periodicity,
                   get_habits_by_periodicity(user_id, periodicity))
    /\ UNCHANGED <<db, session, self>>

CallGetHabitsToCompleteToday(user_id, now) ==
    /\ ret' = Call("get_habits_to_complete_today", user_id, now,
                   get_habits_to_complete_today(user_id, now))
    /\ UNCHANGED <<db, session, self>>

CallGetLastCompletion(habit_id) ==
    /\ \E row \in get_last_completion(habit_id) :
           ret' = Call("get_last_completion", habit_id, 0, Return(row))
    /\ UNCHANGED <<db, session, self>>

\* ------------------------------------------------------- specifications
Init ==
    /\ users = <<>>
    /\ habits = <<>>
    /\ completions = <<>>
    /\ sqlite_sequence = [users |-> 0, habits |-> 0, completions |-> 0]
    /\ current_user_id = NoUser
    /\ current_username = NoName
    /\ self = None
    /\ ret = NoCall

UserIds == 1..MaxUsers
Periodicities == 1..MaxPeriodicity
Ticks == 0..MaxTick
Texts == {isoformat(t) : t \in Ticks} \cup {Garbage}
\* Midnight of two consecutive days.
AggTicks == {0, TicksPerDay}
AggTexts == {isoformat(t) : t \in AggTicks} \cup {Garbage}
\* The names of the habits added, in the order they are added.
HabitNames == <<"Exercise", "Reading", "Meditation", "Weekly Cleaning",
                "Grocery Shopping">>
HabitName(k) == IF k <= Len(HabitNames) THEN HabitNames[k] ELSE "Habit"
\* Daily, and the longest periodicity.
AggPeriodicities == {1, MaxPeriodicity}
\* The description of the habits added one by one.
Description == "Daily workout"
StoredHabitIds == {habits[i].id : i \in 1..Len(habits)}
\* The (completed_date, now) pairs passed to add_completion.
Stamps(texts, ticks) == (texts \X {0}) \cup ({None} \X ticks)

\* Streak engine: one habit, its completions, its longest streak.
AddOneHabit ==
    /\ habits = <<>>
    /\ \E p \in Periodicities : add_habit(1, "Exercise", Description, p, None, 0)

AddCompletion(max, texts, ticks) ==
    /\ Len(completions) < max
    /\ \E h \in StoredHabitIds, s \in Stamps(texts, ticks) :
           add_completion(h, s[1], s[2])

LongestStreakForHabit ==
    \E i \in 1..Len(habits) :
        CallGetLongestStreakForHabit(habits[i].id, habits[i].periodicity)

Next ==
    \/ AddOneHabit
    \/ AddCompletion(MaxCompletions, Texts, Ticks)
    \/ LongestStreakForHabit

Spec == Init /\ [][Next]_vars

NextOrd ==
    \/ AddOneHabit
    \/ AddCompletion(OrdMaxCompletions, Texts, Ticks)
    \/ LongestStreakForHabit

SpecOrd == Init /\ [][NextOrd]_vars

\* Aggregator: the habits of several users, their completions, the streaks.
AddHabit ==
    /\ Len(habits) < MaxHabits
    /\ \E u \in UserIds, p \in AggPeriodicities :
           add_habit(u, HabitName(Len(habits) + 1), Description, p, None, 0)

NextAgg ==
    \/ AddHabit
    \/ AddCompletion(AggMaxCompletions, AggTexts, {})
    \/ LongestStreakForHabit
    \/ \E u \in UserIds : CallGetLongestStreak(u)
    \/ \E u \in UserIds : CallGetAllStreaks(u)

SpecAgg == Init /\ [][NextAgg]_vars

\* Filter by periodicity: the habits of several users, no completions.
AddHabits(max, user_ids, periodicities) ==
    /\ Len(habits) < max
    /\ \E u \in user_ids, p \in periodicities :
           add_habit(u, HabitName(Len(habits) + 1), Description, p, None, 0)

NextFlt ==
    \/ AddHabits(FltMaxHabits, UserIds, AggPeriodicities)
    \/ \E u \in UserIds : CallGetAllHabits(u)
    \/ \E u \in UserIds, p \in AggPeriodicities : CallGetHabitsByPeriodicity(u, p)

SpecFlt == Init /\ [][NextFlt]_vars

\* Habits due today.  Completions late on day 0 and at midnight of day 1; the
\* queries are made at midnight of day 1 and of day 3.
DueUserIds == {1, 2}
DuePeriodicities == {1, 7}
DueTicks == {TicksPerDay - 1, TicksPerDay}
DueTexts == {isoformat(t) : t \in DueTicks} \cup {Garbage}
DueNows == {TicksPerDay, 3 * TicksPerDay}

HabitsToCompleteToday ==
    \E u \in DueUserIds, now \in DueNows : CallGetHabitsToCompleteToday(u, now)

NextDue ==
    \/ AddHabits(DueMaxHabits, DueUserIds, DuePeriodicities)
    \/ AddCompletion(DueMaxCompletions, DueTexts, {})
    \/ HabitsToCompleteToday

SpecDue == Init /\ [][NextDue]_vars

\* Every query, on users and habits that exist and on ones that do not.
LongestStreakForAnyHabit ==
    \E h \in 1..(EmpMaxHabits + 1), p \in DuePeriodicities :
        CallGetLongestStreakForHabit(h, p)

NextEmp ==
    \/ AddHabits(EmpMaxHabits, DueUserIds, DuePeriodicities)
    \/ AddCompletion(EmpMaxCompletions, DueTexts, {})
    \/ \E u \in DueUserIds : CallGetAllHabits(u)
    \/ \E u \in DueUserIds, p \in DuePeriodicities : CallGetHabitsByPeriodicity(u, p)
    \/ HabitsToCompleteToday
    \/ \E u \in DueUserIds : CallGetAllStreaks(u)
    \/ \E u \in DueUserIds : CallGetLongestStreak(u)
    \/ LongestStreakForAnyHabit

SpecEmp == Init /\ [][NextEmp]_vars

\* The completions of two habits: added, edited, deleted by day, and the
\* last one read.  Completions at midnight and later on day 0 and at midnight
\* of day 1; a completion is moved to day 1 or given text that is no date;
\* the day to delete is given by a time late on day 0 or by midnight of day 1.
CmpTicks == {0, 1, TicksPerDay}
CmpTexts == {isoformat(t) : t \in CmpTicks} \cup {Garbage}
CmpNewTexts == {isoformat(TicksPerDay), Garbage}
CmpDeleteTexts == {isoformat(1), isoformat(TicksPerDay), Garbage}
StoredCompletionIds == {completions[i].id : i \in 1..Len(completions)}

InsertCompletion(max, texts) ==
    /\ sqlite_sequence.completions < max
    /\ \E h \in StoredHabitIds, s \in texts : add_completion(h, s, 0)

UpdateCompletionDate(texts) ==
    \E c \in StoredCompletionIds, s \in texts : update_completion_date(c, s)

DeleteCompletion(texts) ==
    \E h \in StoredHabitIds, s \in texts : delete_completion(h, s)

LastCompletion ==
    \E h \in StoredHabitIds : CallGetLastCompletion(h)

NextCmp ==
    \/ AddHabits(CmpMaxHabits, {1}, {1})
    \/ InsertCompletion(CmpMaxCompletions, CmpTexts)
    \/ UpdateCompletionDate(CmpNewTexts)
    \/ DeleteCompletion(CmpDeleteTexts)
    \/ LastCompletion

SpecCmp == Init /\ [][NextCmp]_vars

\* The shell: what click.prompt may read.
Usernames == {"ann", "bob"}
Emails == {"ann@example.com", "bob@example.com"}
\* Two of the predefined names.
AppNames == {"Exercise", "Reading"}
AppPeriodicities == {0, 1}
\* datetime.now() at a registration: midnight of the day four weeks after
\* day 0, and later that day.
Midnight == Weeks * DaysPerWeek * TicksPerDay
UsrNows == {Midnight, Midnight + 1}
AppNows == {Midnight + 1}

Register(max, nows) ==
    /\ Len(users) < max
    /\ \E u \in Usernames, e \in Emails, now \in nows : register(u, e, now)

Login == \E u \in Usernames : login(u)

EditUser == \E u \in Usernames, e \in Emails : edit_user(u, e)

\* Accounts: register, log in and out, edit the user.
NextUsr ==
    \/ Register(UsrMaxUsers, UsrNows)
    \/ Login
    \/ logout
    \/ EditUser

SpecUsr == Init /\ [][NextUsr]_vars

\* The habits of an account: add, edit, delete.
CliAddHabit ==
    /\ sqlite_sequence.habits < Len(predefined_habits) * Len(users) + AppMaxAdded
    /\ \E n \in AppNames, p \in AppPeriodicities, now \in AppNows :
           cli_add_habit(n, Description, p, now)

EditHabit ==
    \E o \in AppNames, n \in AppNames, p \in AppPeriodicities :
        edit_habit(o, n, Description, p)

CliDeleteHabit == \E n \in AppNames : cli_delete_habit(n)

NextApp ==
    \/ Register(AppMaxUsers, AppNows)
    \/ Login
    \/ logout
    \/ CliAddHabit
    \/ EditHabit
    \/ CliDeleteHabit

SpecApp == Init /\ [][NextApp]_vars

\* Editing habits through the handler: the habits of two users, a
\* completion, update_habit with the names the habits have or could have.
UpdMaxHabits == 2
UpdMaxCompletions == 1
UpdUserIds == {1, 2}
UpdNames == {HabitName(1), HabitName(2)}
NewDescription == "New Desc"
NewPeriodicity == 7

UpdateHabit ==
    \E u \in UpdUserIds, o \in UpdNames, n \in UpdNames :
        update_habit(u, o, n, NewDescription, NewPeriodicity)

NextUpd ==
    \/ AddHabits(UpdMaxHabits, UpdUserIds, {1})
    \/ InsertCompletion(UpdMaxCompletions, {isoformat(0)})
    \/ UpdateHabit

SpecUpd == Init /\ [][NextUpd]_vars

\* The Habit class: one object, its completions in any order of arrival
\* (datetime.now() is local time; the tests assign the list), its streak.
HbtMaxCompletions == 4
HbtMaxPeriodicity == 3
HbtPeriodicities == 0..HbtMaxPeriodicity
\* Midnight of day 0, noon of day 0, midnight of days 1, 2, 3, 4 and 6.
HbtDays == {1, 2, 3, 4, 6}
HbtTicks == {0, TicksPerDay - 1} \cup {d * TicksPerDay : d \in HbtDays}

NewHabit ==
    \E p \in HbtPeriodicities :
        Habit_init("Exercise", Description, p, isoformat(0))

HabitAddCompletion ==
    /\ self # None
    /\ Len(self.completions) < HbtMaxCompletions
    /\ \E t \in HbtTicks : Habit_add_completion(t)

NextHbt ==
    \/ NewHabit
    \/ HabitAddCompletion
    \/ Habit_calculate_streak

SpecHbt == Init /\ [][NextHbt]_vars

\* The streak of one habit of any stored periodicity: update_habit and
\* main.add_habit store every integer.
BndMaxCompletions == 3
BndPeriodicities == (0 - 1)..MaxPeriodicity

NextBnd ==
    \/ AddHabits(1, {1}, BndPeriodicities)
    \/ AddCompletion(BndMaxCompletions, Texts, {})
    \/ LongestStreakForHabit

SpecBnd == Init /\ [][NextBnd]_vars

\* A day of the shell: an account, its habits with the periodicity edited,
\* completions typed in, the habits due.
DayMaxCompleted == 2
DaySpan == 3
\* A predefined habit, and a name the account has no habit of.
DayNames == {"Exercise", "Swimming"}
DayPeriodicities == {0, 1, 2}
\* From the moment of registration on, DaySpan ticks.
DayNows == (Midnight + 1)..(Midnight + 1 + DaySpan)
\* Today, or the date two days after the registration.
DayInputs == {TodayInput, DateInput(Weeks * DaysPerWeek + 2)}

\* What create_predefined_habits stores for the first user of an empty store.
Predefined ==
    create_predefined_habits(
        [users |-> <<>>, habits |-> <<>>, completions |-> <<>>,
         sqlite_sequence |-> [users |-> 0, habits |-> 0, completions |-> 0]],
        1, Midnight)

EditPeriodicity ==
    \E n \in DayNames, p \in DayPeriodicities :
        edit_habit(n, n, NewDescription, p)

CompleteHabit ==
    /\ sqlite_sequence.completions
           < Len(Predefined.completions) * Len(users) + DayMaxCompleted
    /\ \E n \in DayNames, i \in DayInputs, now \in DayNows :
           complete_habit(n, i, now)

\* main.habits_to_complete_today
HabitsDueToday ==
    /\ current_user_id # NoUser
    /\ \E now \in DayNows : CallGetHabitsToCompleteToday(current_user_id, now)

NextDay ==
    \/ Register(AppMaxUsers, AppNows)
    \/ EditPeriodicity
    \/ CompleteHabit
    \/ HabitsDueToday

SpecDay == Init /\ [][NextDay]_vars

\* Sessions of the shell: two accounts, logging in and out, the user
\* edited, and every habit and completion operation of the menu on the
\* predefined habit "Exercise".
SesMaxUsers == 2
SesMaxCompleted == 1
SesName == "Exercise"
SesNow == Midnight + 1
\* The day of the registrations, and a later one.
SesDay == Weeks * DaysPerWeek
SesLaterDay == SesDay + 2
\* The first completion of "Exercise" of the first and of the second account.
SesCompletionIds == {1, Len(Predefined.completions) + 1}

SesRegister ==
    /\ Len(users) < SesMaxUsers
    /\ \E k \in 1..SesMaxUsers :
           register(IF k = 1 THEN "ann" ELSE "bob",
                    IF k = 1 THEN "ann@example.com" ELSE "bob@example.com",
                    SesNow)

SesEditUser == edit_user("bob", "bob@example.com")

SesAddHabit ==
    /\ sqlite_sequence.habits < Len(predefined_habits) * Len(users) + AppMaxAdded
    /\ cli_add_habit("Swimming", Description, 1, SesNow)

SesEditHabit == edit_habit(SesName, SesName, NewDescription, NewPeriodicity)

SesDeleteHabit == cli_delete_habit(SesName)

SesCompleteHabit ==
    /\ sqlite_sequence.completions
           < Len(Predefined.completions) * Len(users) + SesMaxCompleted
    /\ complete_habit(SesName, TodayInput, SesNow)

SesEditCompletion ==
    \E c \in SesCompletionIds :
        edit_completion(SesName, c, DateInput(SesLaterDay))

SesDeleteCompletion == cli_delete_completion(SesName, DateInput(SesDay))

SesHabitsDueToday ==
    /\ current_user_id # NoUser
    /\ CallGetHabitsToCompleteToday(current_user_id, SesNow)

NextSes ==
    \/ SesRegister
    \/ Login
    \/ logout
    \/ SesEditUser
    \/ SesAddHabit
    \/ SesEditHabit
    \/ SesDeleteHabit
    \/ SesCompleteHabit
    \/ SesEditCompletion
    \/ SesDeleteCompletion
    \/ SesHabitsDueToday

SpecSes == Init /\ [][NextSes]_vars

\* ------------------------------------------------------ claims: helpers
StreakCall == ret.op = "get_longest_streak_for_habit"
\* The rows the last call of get_longest_streak_for_habit read.
RowsIn(table, habit_id) == SelectSeq(table, LAMBDA c : c.habit_id = habit_id)
StoredRows(habit_id) == RowsIn(completions, habit_id)
CallRows == StoredRows(ret.a)
AllValid(rows) == \A i \in 1..Len(rows) : rows[i].completed_date.kind = "iso"
TicksOf(rows) == [i \in 1..Len(rows) |-> rows[i].completed_date.ticks]
\* Rows of one habit completed at midnight of the given days.
RowsOnDays(ds) ==
    [i \in 1..Len(ds) |-> [id |-> i, habit_id |-> 1,
                           completed_date |-> isoformat(ds[i] * TicksPerDay)]]

\* The timestamps ts in ascending order, by counting: every tick from t up,
\* as often as it occurs.
RECURSIVE AscendingFrom(_, _)
AscendingFrom(t, ts) ==
    IF \A i \in 1..Len(ts) : ts[i] < t THEN <<>>
    ELSE SelectSeq(ts, LAMBDA x : x = t) \o AscendingFrom(t + 1, ts)
Ascending(ts) == AscendingFrom(0, ts)

\* The whole-day difference between adjacent timestamps k and k + 1.
DayDiff(asc, k) == (asc[k + 1] - asc[k]) \div TicksPerDay
\* The continuation rule as the specification words it.
Extends(P, diff) == IF P = 1 THEN diff = 1 ELSE 1 <= diff /\ diff <= P
\* Positions i..j of asc are a run: every adjacent pair in it extends.
IsRun(asc, i, j, P) == \A k \in i..(j - 1) : Extends(P, DayDiff(asc, k))
\* The length of the longest run of asc; 0 when asc is empty.
LongestRun(asc, P) ==
    LET lens == {j - i + 1 : <<i, j>> \in
                    {ij \in (1..Len(asc)) \X (1..Len(asc)) :
                        ij[1] <= ij[2] /\ IsRun(asc, ij[1], ij[2], P)}}
    IN  IF lens = {} THEN 0 ELSE CHOOSE m \in lens : \A n \in lens : n <= m

\* C1: for every periodicity P >= 1 and completions with valid timestamps,
\* get_longest_streak_for_habit returns the length of the longest run of
\* adjacent completions, in ascending order, whose whole-day differences
\* satisfy diff = 1 (P = 1) or 1 <= diff <= P (P > 1); days 0,3,6 with P = 3
\* give 3, a 7-day gap with P = 7 gives 2, a 5-day gap with P = 5 gives 2.
C1_LongestRun ==
    /\ (StreakCall /\ ret.b >= 1 /\ AllValid(CallRows))
         => ret.result = Return(LongestRun(Ascending(TicksOf(CallRows)), ret.b))
    /\ longest_streak_of(RowsOnDays(<<0, 3, 6>>), 3) = Return(3)
    /\ longest_streak_of(RowsOnDays(<<0, 7>>), 7) = Return(2)
    /\ longest_streak_of(RowsOnDays(<<0, 5>>), 5) = Return(2)

\* A call on four valid completions, stored out of order, of a habit with
\* P > 1, whose longest run (3) is shorter than the collection: one pair
\* breaks the streak.
C1_Witness ==
    /\ StreakCall /\ ret.b > 1 /\ AllValid(CallRows)
    /\ Len(CallRows) = 4
    /\ TicksOf(CallRows) # Ascending(TicksOf(CallRows))
    /\ ret.result = Return(3)

\* The accumulator of the scan after the k-th of the sorted dates.
ScanAcc(dates, k, P) ==
    reduce(SubSeq(dates, 2, k),
           [prev_date |-> dates[1], streak |-> 1, max_streak |-> 1], P)
SetMax(S) == CHOOSE m \in S : \A n \in S : n <= m

\* C2: when a pair breaks the run, the running streak restarts at 1 and the
\* maximum is kept; the value returned is the maximum of the running streak
\* over the whole scan, wherever the longest run lies.  P = 1 with days
\* 0,1,2,4 returns 3.
C2_MaxKept ==
    /\ (StreakCall /\ ret.b >= 1 /\ AllValid(CallRows) /\ CallRows # <<>>)
         => LET dates == Ascending(TicksOf(CallRows))
                n == Len(dates)
                P == ret.b
            IN  /\ \A k \in 2..n :
                       ~Extends(P, DayDiff(dates, k - 1))
                           => /\ ScanAcc(dates, k, P).streak = 1
                              /\ ScanAcc(dates, k, P).max_streak
                                     = ScanAcc(dates, k - 1, P).max_streak
                /\ ret.result
                       = Return(SetMax({ScanAcc(dates, k, P).streak : k \in 1..n}))
    /\ longest_streak_of(RowsOnDays(<<0, 1, 2, 4>>), 1) = Return(3)
    /\ longest_streak_of(RowsOnDays(<<0, 1, 2>>), 1) = Return(3)

\* A call whose longest run is a middle one: the scan of four completions
\* breaks at the second, extends at the third and breaks again at the
\* fourth, and 2 is returned.
C2_Witness ==
    /\ StreakCall /\ AllValid(CallRows) /\ Len(CallRows) = 4
    /\ LET dates == Ascending(TicksOf(CallRows)) IN
       /\ ScanAcc(dates, 2, ret.b).streak = 1
       /\ ScanAcc(dates, 3, ret.b).streak = 2
       /\ ScanAcc(dates, 4, ret.b).streak = 1
    /\ ret.result = Return(2)

\* C3: for every periodicity P >= 1, get_longest_streak_for_habit returns 0
\* for a habit that has no completions.
C3_EmptyIsZero ==
    (StreakCall /\ ret.b >= 1 /\ CallRows = <<>>) => ret.result = Return(0)

\* A call for a habit without completions while another habit has some.
C3_Witness ==
    /\ StreakCall /\ CallRows = <<>> /\ completions # <<>>
    /\ ret.result = Return(0)

\* C4 as stated: for every periodicity P >= 1, get_longest_streak_for_habit
\* returns 1 for a habit that has exactly one completion.
C4_SingleIsOne_AsStated ==
    (StreakCall /\ ret.b >= 1 /\ Len(CallRows) = 1) => ret.result = Return(1)

\* C4 as amended: for every periodicity P >= 1, get_longest_streak_for_habit
\* returns 1 for a habit that has exactly one completion, whose timestamp is
\* valid.
C4_SingleValidIsOne ==
    (StreakCall /\ ret.b >= 1 /\ Len(CallRows) = 1 /\ AllValid(CallRows))
        => ret.result = Return(1)

\* A call for a habit with one valid completion while another habit has
\* completions too.
C4_Witness ==
    /\ StreakCall /\ Len(CallRows) = 1 /\ AllValid(CallRows)
    /\ Len(completions) > 1
    /\ ret.result = Return(1)

\* The permutations of 1..n.
IndexPermutations(n) ==
    {f \in [1..n -> 1..n] : \A i, j \in 1..n : f[i] = f[j] => i = j}

\* C5: order invariance: for every periodicity and every collection of
\* completions, get_longest_streak_for_habit returns the same value for
\* every permutation of the order in which the storage returns them.
C5_OrderInvariant ==
    StreakCall =>
        \A f \in IndexPermutations(Len(CallRows)) :
            longest_streak_of([i \in 1..Len(CallRows) |-> CallRows[f[i]]], ret.b)
                = ret.result

\* A call on three valid completions stored in descending order that form
\* one run.
C5_Witness ==
    /\ StreakCall /\ AllValid(CallRows) /\ Len(CallRows) = 3
    /\ \A i \in 1..2 : CallRows[i].completed_date.ticks
                          > CallRows[i + 1].completed_date.ticks
    /\ ret.result = Return(3)

\* C6: the streak computation is pure: a call of
\* get_longest_streak_for_habit leaves the stored habits and completions
\* (their rows, order and timestamps) unchanged, and a second call on the
\* store it leaves returns the same value.
C6_Pure ==
    [][\A h \in 1..MaxHabits, p \in Periodicities :
          (ret'.op = "get_longest_streak_for_habit" /\ ret'.a = h /\ ret'.b = p)
              => /\ habits' = habits
                 /\ completions' = completions
                 /\ sqlite_sequence' = sqlite_sequence
                 /\ ret'.result = longest_streak_of(RowsIn(completions', h), p)]_vars

\* The state after a call on valid completions that are stored out of
\* ascending order: they still are.
C6_Witness ==
    /\ StreakCall /\ AllValid(CallRows) /\ Len(CallRows) >= 3
    /\ TicksOf(CallRows) # Ascending(TicksOf(CallRows))
    /\ ret.result.value >= 2

ValidRows(rows) == SelectSeq(rows, LAMBDA c : c.completed_date.kind = "iso")

\* C7: a completion without a valid timestamp is silently excluded:
\* get_longest_streak_for_habit raises nothing and returns the value it
\* would return if that completion were absent (0 when every completion of
\* the habit is invalid).
C7_InvalidExcluded ==
    StreakCall =>
        /\ ret.result.exc = "none"
        /\ ret.result = longest_streak_of(ValidRows(CallRows), ret.b)

\* What the code does instead: one unparseable timestamp makes the result 0.
C7_UnparseableGivesZero ==
    (StreakCall /\ ~AllValid(CallRows)) => ret.result = Return(0)

\* The habits of a user, in the order of the store.
HabitsOf(user_id) == SelectSeq(habits, LAMBDA h : h.user_id = user_id)
\* The value get_longest_streak_for_habit returns for a stored habit.
StreakOf(h) == longest_streak_of(StoredRows(h.id), h.periodicity).value

\* C8: for every user and every habit the user owns, the streak that
\* get_all_streaks reports for the habit equals get_longest_streak_for_habit
\* of that habit's id and periodicity, for every collection of completions.
C8_AllStreaksAgree ==
    ret.op = "get_all_streaks" =>
        LET hs == HabitsOf(ret.a) IN
        /\ ret.result.exc = "none"
        /\ Len(ret.result.value) = Len(hs)
        /\ \A i \in 1..Len(hs) :
               /\ ret.result.value[i].name = hs[i].name
               /\ ret.result.value[i].streak = StreakOf(hs[i])

\* The two computations do agree while every timestamp of the user's habits
\* parses.
C8_AgreeOnValid ==
    (ret.op = "get_all_streaks"
        /\ \A i \in 1..Len(HabitsOf(ret.a)) :
               AllValid(StoredRows(HabitsOf(ret.a)[i].id)))
    => LET hs == HabitsOf(ret.a) IN
       /\ ret.result.exc = "none"
       /\ Len(ret.result.value) = Len(hs)
       /\ \A i \in 1..Len(hs) :
              /\ ret.result.value[i].name = hs[i].name
              /\ ret.result.value[i].streak = StreakOf(hs[i])

\* C9: for a user with at least one habit, get_longest_streak returns a
\* habit of that user with that habit's longest streak; no habit of the
\* user has a larger streak, and among the habits with the maximum streak
\* the first in the order of the store is returned.
C9_FirstLongest ==
    (ret.op = "get_longest_streak" /\ HabitsOf(ret.a) # <<>>) =>
        LET hs == HabitsOf(ret.a) IN
        /\ ret.result.exc = "none"
        /\ \E i \in 1..Len(hs) :
               /\ ret.result.value = <<hs[i], StreakOf(hs[i])>>
               /\ \A j \in 1..Len(hs) : StreakOf(hs[j]) <= StreakOf(hs[i])
               /\ \A j \in 1..(i - 1) : StreakOf(hs[j]) < StreakOf(hs[i])

\* A call for a user whose two habits both have the maximum streak, which
\* is not 0: the first is returned.
C9_Witness ==
    /\ ret.op = "get_longest_streak"
    /\ LET hs == HabitsOf(ret.a) IN
       /\ Len(hs) >= 2
       /\ StreakOf(hs[1]) = StreakOf(hs[2])
       /\ StreakOf(hs[1]) >= 1
       /\ ret.result = Return(<<hs[1], StreakOf(hs[1])>>)

\* C10: for a user with no habits, get_longest_streak returns the
\* no-result sentinel (None for the habit) paired with streak 0.
C10_NoHabits ==
    (ret.op = "get_longest_streak" /\ HabitsOf(ret.a) = <<>>)
        => ret.result = Return(<<None, 0>>)

\* A call for a user without habits while another user has a habit with a
\* completion.
C10_Witness ==
    /\ ret.op = "get_longest_streak"
    /\ HabitsOf(ret.a) = <<>>
    /\ habits # <<>> /\ completions # <<>>
    /\ ret.result = Return(<<None, 0>>)

\* The calendar day a tick lies on.
DayOf(t) == t \div TicksPerDay
Contains(seq, x) == \E i \in 1..Len(seq) : seq[i] = x
\* The position of x in seq.
Pos(seq, x) == CHOOSE i \in 1..Len(seq) : seq[i] = x
IdsOf(rows) == {rows[i].id : i \in 1..Len(rows)}
\* A habit is due on the day today: it has no completion with a date, or its
\* latest date lies at least its periodicity in days before today.
DueOn(h, today) ==
    LET rows == ValidRows(StoredRows(h.id)) IN
    \/ rows = <<>>
    \/ today - DayOf(SetMax({rows[i].completed_date.ticks : i \in 1..Len(rows)}))
           >= h.periodicity

\* C11: get_habits_to_complete_today returns a habit of the user exactly
\* when the habit has never been completed or the number of whole days
\* between today and the date of its most recent completion is at least its
\* periodicity; only the most recent completion counts.
C11_DueExactly ==
    ret.op = "get_habits_to_complete_today" =>
        /\ ret.result.exc = "none"
        /\ ret.result.value
               = SelectSeq(HabitsOf(ret.a), LAMBDA h : DueOn(h, DayOf(ret.b)))

\* What the code does: C11 holds of every call that finds only parseable
\* texts in the completions of the user's habits.
C11_DueWhenParseable ==
    (ret.op = "get_habits_to_complete_today"
        /\ \A i \in 1..Len(HabitsOf(ret.a)) :
               AllValid(StoredRows(HabitsOf(ret.a)[i].id)))
    => /\ ret.result.exc = "none"
       /\ ret.result.value
              = SelectSeq(HabitsOf(ret.a), LAMBDA h : DueOn(h, DayOf(ret.b)))

\* A habit with unparseable text in a completion makes the call raise.
C11_UnparseableRaises ==
    (ret.op = "get_habits_to_complete_today"
        /\ \E i \in 1..Len(HabitsOf(ret.a)) :
               ~AllValid(StoredRows(HabitsOf(ret.a)[i].id)))
    => ret.result = Raise("ValueError")

\* C12: get_habits_by_periodicity returns exactly the habits of the given
\* user whose periodicity equals the given value, in the relative order in
\* which the storage lists that user's habits.
C12_FilterExact ==
    ret.op = "get_habits_by_periodicity" =>
        LET r == ret.result.value IN
        /\ ret.result.exc = "none"
        /\ \A i \in 1..Len(r) :
               /\ Contains(habits, r[i])
               /\ r[i].user_id = ret.a
               /\ r[i].periodicity = ret.b
        /\ \A k \in 1..Len(habits) :
               (habits[k].user_id = ret.a /\ habits[k].periodicity = ret.b)
                   => Contains(r, habits[k])
        /\ \A i, j \in 1..Len(r) :
               i < j => Pos(habits, r[i]) < Pos(habits, r[j])

\* A call that returns two habits of the user while another user has a habit
\* of the same periodicity, stored before one of the two.
C12_Witness ==
    /\ ret.op = "get_habits_by_periodicity"
    /\ Len(ret.result.value) = 2
    /\ \E k \in 1..Len(habits) :
           /\ habits[k].user_id # ret.a
           /\ habits[k].periodicity = ret.b
           /\ k < Pos(habits, ret.result.value[2])

\* C13: deleting a habit removes its completions: after delete_habit, in
\* every later state no stored completion refers to the id of the deleted
\* habit.  Completions are added to stored habits only and an id is never
\* handed out twice, so this says that every stored completion refers to a
\* stored habit.
C13_DeleteCascades ==
    \A i \in 1..Len(completions) : completions[i].habit_id \in StoredHabitIds

\* C14: habit names are unique per user: after any sequence of add habit,
\* edit habit and delete habit, no two stored habits of one owner have the
\* same name.
C14_NamesUniquePerUser ==
    \A i, j \in 1..Len(habits) :
        (i # j /\ habits[i].user_id = habits[j].user_id)
            => habits[i].name # habits[j].name

\* C15: usernames and emails are unique: after any sequence of register,
\* edit user, logout and login, no two stored users have the same username
\* and no two have the same email.
C15_UsersUnique ==
    \A i, j \in 1..Len(users) :
        i # j => /\ users[i].username # users[j].username
                 /\ users[i].email # users[j].email

\* C16: every stored habit has a periodicity of 1 or more in every reachable
\* state: a periodicity of zero or less is rejected when a habit is created
\* or edited.
C16_PeriodicityPositive ==
    \A i \in 1..Len(habits) : habits[i].periodicity >= 1

OnDayOf(c, habit_id, d) ==
    /\ c.habit_id = habit_id
    /\ c.completed_date.kind = "iso" /\ d.kind = "iso"
    /\ DayOf(c.completed_date.ticks) = DayOf(d.ticks)

\* C18: delete_completion(habit_id, date) removes every completion of that
\* habit whose calendar day is the day of the date, whatever the time of
\* day, and leaves every other completion (of that habit on another day, of
\* every other habit) as it is.
C18_DeleteByDay ==
    ret.op = "delete_completion" =>
        LET old == ret.before.completions IN
        /\ \A i \in 1..Len(old) :
               IF OnDayOf(old[i], ret.a, ret.b)
               THEN old[i].id \notin IdsOf(completions)
               ELSE Contains(completions, old[i])
        /\ \A j \in 1..Len(completions) : Contains(old, completions[j])
        /\ \A i, j \in 1..Len(completions) :
               i < j => Pos(old, completions[i]) < Pos(old, completions[j])
        /\ habits = ret.before.habits

\* A delete that removed two completions of the habit, made at different
\* times of the day of the date, and left a completion of the habit on
\* another day and a completion of another habit on the day of the date.
C18_Witness ==
    /\ ret.op = "delete_completion"
    /\ LET old == ret.before.completions IN
       /\ \E i, j \in 1..Len(old) :
              /\ OnDayOf(old[i], ret.a, ret.b) /\ OnDayOf(old[j], ret.a, ret.b)
              /\ old[i].completed_date.ticks # old[j].completed_date.ticks
       /\ \E i \in 1..Len(completions) :
              /\ completions[i].completed_date.kind = "iso"
              /\ \/ /\ completions[i].habit_id = ret.a
                     /\ DayOf(completions[i].completed_date.ticks) # DayOf(ret.b.ticks)
                 \/ /\ completions[i].habit_id # ret.a
                     /\ DayOf(completions[i].completed_date.ticks) = DayOf(ret.b.ticks)

\* C19: after any sequence of add, edit-date and delete completion,
\* get_last_completion returns nothing for a habit without completions, and
\* otherwise a completion of the habit whose timestamp is greater than or
\* equal to the timestamp of every other completion of the habit.
C19_LastIsLatest ==
    ret.op = "get_last_completion" =>
        LET rows == StoredRows(ret.a)
            last == ret.result.value
        IN  IF rows = <<>> THEN last = None
            ELSE /\ Contains(rows, last)
                 /\ \A i \in 1..Len(rows) :
                        rows[i].completed_date.kind = "iso"
                            => /\ last.completed_date.kind = "iso"
                               /\ rows[i].completed_date.ticks
                                      <= last.completed_date.ticks

\* What the code does: C19 holds of every call for a habit whose completions
\* all hold parseable text.
C19_LatestWhenParseable ==
    (ret.op = "get_last_completion" /\ AllValid(StoredRows(ret.a))) =>
        LET rows == StoredRows(ret.a)
            last == ret.result.value
        IN  IF rows = <<>> THEN last = None
            ELSE /\ Contains(rows, last)
                 /\ \A i \in 1..Len(rows) :
                        rows[i].completed_date.ticks <= last.completed_date.ticks

\* C20: registering a user creates exactly 5 habits, owned by the new user,
\* at least one of periodicity 1 and one of periodicity 7; the completions of
\* each start at the time of registration, step back by exactly the
\* periodicity in days and lie within the 28 days before the registration,
\* the last being the latest step that is not more than 28 days back.
C20_PredefinedHabits ==
    ret.op = "register" =>
        LET new == SelectSeq(habits, LAMBDA h : h.id \notin IdsOf(ret.before.habits))
            registered == ret.b
        IN  /\ Len(users) = Len(ret.before.users) + 1
            /\ users[Len(users)].id = ret.a
            /\ ret.a \notin IdsOf(ret.before.users)
            /\ Len(new) = 5
            /\ HabitsOf(ret.a) = new
            /\ \E i \in 1..Len(new) : new[i].periodicity = 1
            /\ \E i \in 1..Len(new) : new[i].periodicity = 7
            /\ \A i \in 1..Len(new) :
                   LET rows == StoredRows(new[i].id)
                       ts == TicksOf(rows)
                       step == new[i].periodicity * TicksPerDay
                   IN  /\ rows # <<>> /\ AllValid(rows)
                       /\ ts[1] = registered
                       /\ \A k \in 2..Len(ts) : ts[k] = ts[k - 1] - step
                       /\ \A k \in 1..Len(ts) : ts[k] >= registered - 28 * TicksPerDay
                       /\ ts[Len(ts)] - step < registered - 28 * TicksPerDay

\* The registration of a second user: one of the new habits has periodicity
\* 7 and five completions, the last of them exactly 28 days back.
C20_Witness ==
    /\ ret.op = "register"
    /\ Len(users) = 2
    /\ \E i \in 1..Len(HabitsOf(ret.a)) :
           LET h == HabitsOf(ret.a)[i]
               ts == TicksOf(StoredRows(h.id))
           IN  /\ h.periodicity = 7
               /\ Len(ts) = 5
               /\ ts[5] = ret.b - 28 * TicksPerDay

\* C21: update_habit(user, old_name, new_name, new_description,
\* new_periodicity) gives every habit of that user named old_name the new
\* name, description and periodicity and keeps its id, owner and creation
\* date; every other habit, every completion and every user is as before,
\* and so is the whole store when the user has no habit named old_name.
Renamed(before) ==
    {i \in 1..Len(before.habits) :
        /\ before.habits[i].user_id = ret.a[1]
        /\ before.habits[i].name = ret.a[2]}

C21_UpdateHabitFrame ==
    ret.op = "update_habit" =>
        /\ Len(habits) = Len(ret.before.habits)
        /\ \A i \in 1..Len(ret.before.habits) :
               IF i \in Renamed(ret.before)
               THEN habits[i] = [id |-> ret.before.habits[i].id,
                                 user_id |-> ret.before.habits[i].user_id,
                                 name |-> ret.b[1],
                                 description |-> ret.b[2],
                                 periodicity |-> ret.b[3],
                                 creation_date |->
                                     ret.before.habits[i].creation_date]
               ELSE habits[i] = ret.before.habits[i]
        /\ completions = ret.before.completions
        /\ users = ret.before.users
        /\ (Renamed(ret.before) = {} => Tables = ret.before)

\* A habit that has a completion was renamed while another user's habit of
\* the old name stayed.
C21_Witness ==
    /\ ret.op = "update_habit"
    /\ \E i \in Renamed(ret.before), j \in 1..Len(habits) :
           /\ habits[i] # ret.before.habits[i]
           /\ \E k \in 1..Len(completions) :
                  completions[k].habit_id = habits[i].id
           /\ j \notin Renamed(ret.before)
           /\ habits[j].name = ret.a[2]
           /\ habits[j].user_id # ret.a[1]

\* update_habit for a name the user has no habit of, while someone else has.
C21_WitnessNoSuchHabit ==
    /\ ret.op = "update_habit"
    /\ Renamed(ret.before) = {}
    /\ \E j \in 1..Len(habits) : habits[j].name = ret.a[2]


\* C22: Habit.calculate_streak returns 0 for a habit with no completions and
\* otherwise the length of the final run of its completions in ascending
\* order, a run being broken wherever the whole-day gap between two adjacent
\* completions exceeds the periodicity; P = 1 with days 0,1,2 gives 3, P = 1
\* with days 0,1,2,4 gives 1, P = 3 with days 0,3,6 gives 3.
HabitCall == ret.op = "Habit.calculate_streak"
\* The length of the longest suffix of asc without a gap above P.
FinalRun(asc, P) ==
    LET lens == {n \in 1..Len(asc) :
                    \A k \in (Len(asc) - n + 1)..(Len(asc) - 1) :
                        DayDiff(asc, k) <= P}
    IN  IF lens = {} THEN 0 ELSE CHOOSE m \in lens : \A n \in lens : n <= m
Midnights(ds) == [i \in 1..Len(ds) |-> ds[i] * TicksPerDay]
HabitCallOn(P, ds) ==
    /\ HabitCall
    /\ ret.a.periodicity = P
    /\ Ascending(ret.a.completions) = Midnights(ds)

C22_FinalRun ==
    /\ HabitCall =>
           ret.result = Return(FinalRun(Ascending(ret.a.completions),
                                        ret.a.periodicity))
    /\ HabitCallOn(1, <<0, 1, 2>>) => ret.result = Return(3)
    /\ HabitCallOn(1, <<0, 1, 2, 4>>) => ret.result = Return(1)
    /\ HabitCallOn(3, <<0, 3, 6>>) => ret.result = Return(3)

\* The streak of days 0,1,2,4 with P = 1, appended out of order.
C22_Witness ==
    /\ HabitCallOn(1, <<0, 1, 2, 4>>)
    /\ ret.a.completions # Midnights(<<0, 1, 2, 4>>)
    /\ ret.result = Return(1)

C22_WitnessDaily == HabitCallOn(1, <<0, 1, 2>>) /\ ret.result = Return(3)
C22_WitnessFlexible == HabitCallOn(3, <<0, 3, 6>>) /\ ret.result = Return(3)
C22_WitnessEmpty == HabitCall /\ ret.a.completions = <<>> /\ ret.result = Return(0)
\* Two completions of one day extend the run.
C22_WitnessSameDay ==
    /\ HabitCall
    /\ Ascending(ret.a.completions) = <<0, TicksPerDay - 1>>
    /\ ret.result = Return(2)


\* C23: for every periodicity P >= 1, a habit whose completions include an
\* exact duplicate of a timestamp has the same longest streak from
\* get_longest_streak_for_habit as the same habit without the duplicate.
Without(rows, i) == SubSeq(rows, 1, i - 1) \o SubSeq(rows, i + 1, Len(rows))
\* The positions of rows that repeat the timestamp of an earlier row.
Duplicates(rows) ==
    {i \in 1..Len(rows) :
        \E j \in 1..(i - 1) : rows[j].completed_date = rows[i].completed_date}

C23_DuplicateNeutral ==
    (StreakCall /\ ret.b >= 1 /\ AllValid(CallRows)) =>
        \A i \in Duplicates(CallRows) :
            ret.result = Return(LongestRun(
                Ascending(TicksOf(Without(CallRows, i))), ret.b))

\* What the code does with a duplicate: the pair has difference 0, which
\* extends no run, so the run is cut in two at the duplicate.
C23_DuplicateCuts ==
    (StreakCall /\ ret.b >= 1 /\ AllValid(CallRows)) =>
        \A k \in 1..(Len(CallRows) - 1) :
            LET asc == Ascending(TicksOf(CallRows)) IN
            asc[k] = asc[k + 1] =>
                ret.result = Return(Max(LongestRun(SubSeq(asc, 1, k), ret.b),
                                        LongestRun(SubSeq(asc, k + 1, Len(asc)),
                                                   ret.b)))


\* C24: the day difference of the continuation rule is the elapsed time
\* between two adjacent sorted completions truncated to whole 24-hour days,
\* neither rounded nor the difference of the calendar dates: completions less
\* than 24 hours apart have difference 0 and do not extend the streak, also
\* on consecutive calendar days, and completions at least 24 and less than
\* 48 hours apart have difference 1.
Elapsed(rows) ==
    LET asc == Ascending(TicksOf(rows)) IN asc[2] - asc[1]
PairCall == StreakCall /\ ret.b >= 1 /\ AllValid(CallRows) /\ Len(CallRows) = 2

C24_ElapsedDays ==
    PairCall =>
        /\ Elapsed(CallRows) < TicksPerDay => ret.result = Return(1)
        /\ (TicksPerDay <= Elapsed(CallRows)
                /\ Elapsed(CallRows) < 2 * TicksPerDay)
              => ret.result = Return(2)
        /\ ret.result = Return(2) <=>
               /\ TicksPerDay <= Elapsed(CallRows)
               /\ Elapsed(CallRows) < (ret.b + 1) * TicksPerDay

\* A daily habit completed late on one day and early on the next, less than
\* 24 hours apart: the streak is 1.
C24_Witness ==
    /\ PairCall
    /\ ret.b = 1
    /\ Elapsed(CallRows) < TicksPerDay
    /\ \E i, j \in 1..2 :
           DayOf(CallRows[j].completed_date.ticks)
               = DayOf(CallRows[i].completed_date.ticks) + 1
    /\ ret.result = Return(1)

\* A daily habit completed 36 hours apart: difference 1, not 2.
C24_WitnessNotRounded ==
    /\ PairCall
    /\ ret.b = 1
    /\ 2 * Elapsed(CallRows) = 3 * TicksPerDay
    /\ ret.result = Return(2)

\* C25: for every periodicity and every collection of completions with valid
\* timestamps, the value get_longest_streak_for_habit returns is between 0
\* and the number of completions of the habit, and it is at least 1 exactly
\* when the habit has at least one completion.
C25_StreakBounds ==
    (StreakCall /\ AllValid(CallRows)) =>
        /\ ret.result.exc = "none"
        /\ 0 <= ret.result.value
        /\ ret.result.value <= Len(CallRows)
        /\ ret.result.value >= 1 <=> Len(CallRows) >= 1

\* A streak strictly between 1 and the number of completions.
C25_Witness ==
    /\ StreakCall
    /\ ret.b >= 1
    /\ AllValid(CallRows)
    /\ 1 < ret.result.value
    /\ ret.result.value < Len(CallRows)

\* A habit of periodicity 0 with two completions: the streak is 1.
C25_WitnessNotPositive ==
    /\ StreakCall
    /\ ret.b <= 0
    /\ AllValid(CallRows)
    /\ Len(CallRows) >= 2
    /\ ret.result = Return(1)

\* C26: recording one more completion for a habit never decreases its
\* longest streak: for every periodicity P >= 1, every stored collection of
\* completions with valid timestamps and every new timestamp, the value of
\* get_longest_streak_for_habit after add_completion is at least its value
\* before.
C26_AddNeverDecreases ==
    [][\A h \in 1..MaxHabits, p \in Periodicities :
          (/\ Len(completions') = Len(completions) + 1
           /\ AllValid(RowsIn(completions', h)))
              => longest_streak_of(RowsIn(completions', h), p).value
                     >= longest_streak_of(RowsIn(completions, h), p).value]_vars


\* C27: after a completion dated today is recorded for a habit through
\* complete habit, the habit is not returned by get_habits_to_complete_today
\* for the same day, and it is returned again once periodicity days have
\* passed without a newer completion.
\* The habits the last complete habit recorded a completion for.
Completed(before) ==
    LET named == SelectSeq(before.habits, LAMBDA h :
                     h.user_id = current_user_id /\ h.name = ret.a)
    IN  IF named = <<>> THEN {} ELSE {Head(named)}
CompletedToday == ret.op = "complete_habit" /\ ret.b[1] = TodayInput
\* No completion of the habit is dated after the tick t.
NoneNewer(h, t) ==
    \A i \in 1..Len(completions) :
        completions[i].habit_id = h.id =>
            completions[i].completed_date.ticks <= t

CompleteThenDue(periodicities) ==
    (CompletedToday /\ ret'.op = "get_habits_to_complete_today") =>
        \A h \in Completed(ret.before) :
            h.periodicity \in periodicities =>
                /\ ret'.result.exc = "none"
                /\ DayOf(ret'.b) = DayOf(ret.b[2])
                       => h.id \notin IdsOf(ret'.result.value)
                /\ (DayOf(ret'.b) >= DayOf(ret.b[2]) + h.periodicity
                        /\ NoneNewer(h, ret.b[2]))
                       => h.id \in IdsOf(ret'.result.value)

C27_CompleteThenDue == [][CompleteThenDue(DayPeriodicities)]_vars

\* The same for the habits of periodicity 1 or more.
C27_PositivePeriodicity ==
    [][CompleteThenDue({p \in DayPeriodicities : p >= 1})]_vars


\* C28: whenever the main menu is active, current_user_id is the id of a
\* user that exists in the store and current_username is that user's stored
\* username; logout sets both to None before login or registration starts
\* again; every habit and completion operation chosen from the menu reads
\* and writes only the habits and completions of the logged-in user.
MenuActive == current_user_id # NoUser
SessionOfStoredUser ==
    MenuActive =>
        \E i \in 1..Len(users) :
            /\ users[i].id = current_user_id
            /\ users[i].username = current_username
LoggedOut == current_user_id = NoUser => current_username = NoName
\* The ids of the habits of the logged-in user.
OwnHabitIds ==
    {habits[i].id : i \in {j \in 1..Len(habits) :
                              habits[j].user_id = current_user_id}}
\* A step of the menu leaves the rows of everyone else as they are.
OthersUntouched ==
    (MenuActive /\ current_user_id' = current_user_id) =>
        /\ SelectSeq(habits', LAMBDA h : h.user_id # current_user_id)
               = SelectSeq(habits, LAMBDA h : h.user_id # current_user_id)
        /\ SelectSeq(completions', LAMBDA c : c.habit_id \notin OwnHabitIds)
               = SelectSeq(completions, LAMBDA c : c.habit_id \notin OwnHabitIds)
\* A query of the menu returns habits of the logged-in user.
OwnHabitsRead ==
    (MenuActive /\ ret'.op = "get_habits_to_complete_today") =>
        /\ ret'.a = current_user_id
        /\ \A i \in 1..Len(ret'.result.value) :
               ret'.result.value[i].user_id = current_user_id
LogoutClears ==
    (MenuActive /\ current_user_id' # current_user_id) =>
        current_user_id' = NoUser /\ current_username' = NoName

\* The session after a step.
SessionOfStoredUserAfter ==
    current_user_id' # NoUser =>
        \E i \in 1..Len(users') :
            /\ users'[i].id = current_user_id'
            /\ users'[i].username = current_username'
IdOfStoredUserAfter ==
    current_user_id' # NoUser =>
        \E i \in 1..Len(users') : users'[i].id = current_user_id'
LoggedOutAfter == current_user_id' = NoUser => current_username' = NoName

C28_SessionInvariant ==
    [][/\ SessionOfStoredUserAfter
       /\ LoggedOutAfter
       /\ LogoutClears
       /\ OthersUntouched
       /\ OwnHabitsRead]_vars

\* What holds of the session: the id is the id of a stored user; the name
\* is the one typed at the login or registration, which edit user does not
\* replace.
C28_IdOfStoredUser ==
    [][/\ IdOfStoredUserAfter
       /\ LoggedOutAfter
       /\ LogoutClears
       /\ OthersUntouched
       /\ OwnHabitsRead]_vars

\* The stored name differs from current_username.
C28_StaleName ==
    /\ MenuActive
    /\ \E i \in 1..Len(users) :
           /\ users[i].id = current_user_id
           /\ users[i].username # current_username

=============================================================================
